---- MODULE Spec2Model ----
(***************************************************************************)
(* psort: the per-pixel heuristics (src/main.rs 10-82) and the             *)
(* segmentation-and-sort loop that main runs over a row (src/main.rs       *)
(* 148-195).                                                               *)
(*                                                                         *)
(* A pixel is Rgba<u8>.data, written <<R, G, B, A>>; the source's data[i]  *)
(* is p[i + 1] here.  The image has one row, so rgba is that row.          *)
(***************************************************************************)
EXTENDS Integers, Sequences, FiniteSets, TLC

VARIABLES
    function,     \* cli.function
    minimum,      \* cli.minimum
    maximum,      \* cli.maximum
    reverse,      \* cli.reverse
    invert,       \* cli.invert
    mask_alpha,   \* cli.mask_alpha
    rgba,         \* the image buffer: the row as opened, until the write-back
    row,          \* the row of rgba.clone() that the loop permutes
    ctr,          \* the loop's cursor
    pc,           \* "loop" | "done" (main), "heur" | "evaluated" (one heuristic call)
    pass,         \* 1: the first run of main; 2: main run again on its own output
    classified,   \* history: the positions the loop has handed to the sort
    pixel,        \* the argument of a single heuristic call
    hval          \* the outcome of that call

vars == <<function, minimum, maximum, reverse, invert, mask_alpha,
          rgba, row, ctr, pc, pass, classified, pixel, hval>>

----------------------------------------------------------------------------
(* Bounds and input sets *)

MaxWidth == 3      \* rows of 1..MaxWidth pixels
ChanEdge == 2      \* channel samples 0..ChanEdge and 255-ChanEdge..255
ChanStep == 17     \* and every multiple of ChanStep

Heuristics ==
    {"Luma", "Brightness", "Max", "Min", "Chroma", "Hue",
     "Saturation", "Value", "Red", "Blue", "Green"}

\* The pixels rows are built from: two that tie on Red, Max, Min and Chroma
\* but differ in Green, one of them fully transparent; a blue and a gray.
Palette ==
    { <<255, 0, 0, 255>>, <<255, 255, 0, 0>>,
      <<0, 0, 200, 255>>, <<100, 100, 100, 255>> }

MinVals == {0, 128}
MaxVals == {0, 255}

\* The channel values a single heuristic call is tried on.
ChanVals ==
    {v \in 0..255 : v <= ChanEdge \/ v >= 255 - ChanEdge \/ v % ChanStep = 0}

----------------------------------------------------------------------------
(* Fixed-width arithmetic.  A value is [v, ok]: v is what a release build  *)
(* computes (wrapping), ok is FALSE once an operation overflowed,          *)
(* underflowed, divided by zero (a panic) or an `as` cast dropped bits.    *)

Lit(n) == [v |-> n, ok |-> TRUE]

Wrap(x, y, n, w) == [v |-> n % w, ok |-> x.ok /\ y.ok /\ n >= 0 /\ n < w]

Add8(x, y) == Wrap(x, y, x.v + y.v, 256)
Sub8(x, y) == Wrap(x, y, x.v - y.v, 256)
Mul8(x, y) == Wrap(x, y, x.v * y.v, 256)
Div8(x, y) ==
    IF y.v = 0 THEN [v |-> 0, ok |-> FALSE]
    ELSE [v |-> x.v \div y.v, ok |-> x.ok /\ y.ok]
Rem8(x, y) ==
    IF y.v = 0 THEN [v |-> 0, ok |-> FALSE]
    ELSE [v |-> x.v % y.v, ok |-> x.ok /\ y.ok]

Add16(x, y) == Wrap(x, y, x.v + y.v, 65536)
Mul16(x, y) == Wrap(x, y, x.v * y.v, 65536)
Shr16(x, k) == [v |-> x.v \div (2 ^ k), ok |-> x.ok]

\* i16: x - y and abs() on values within -32768..32767
SubI16(x, y) ==
    [v |-> x.v - y.v,
     ok |-> x.ok /\ y.ok /\ x.v - y.v >= -32768 /\ x.v - y.v <= 32767]
AbsI16(x) ==
    [v |-> IF x.v < 0 THEN 0 - x.v ELSE x.v, ok |-> x.ok /\ x.v # -32768]

\* `as u8`: keeps the low 8 bits
AsU8(x) == [v |-> x.v % 256, ok |-> x.ok /\ x.v >= 0 /\ x.v <= 255]

----------------------------------------------------------------------------
(* The heuristics *)

pixel_max(p) == CHOOSE m \in {p[1], p[2], p[3]} : \A x \in {p[1], p[2], p[3]} : m >= x

pixel_min(p) == CHOOSE m \in {p[1], p[2], p[3]} : \A x \in {p[1], p[2], p[3]} : m <= x

pixel_chroma(p) == Sub8(Lit(pixel_max(p)), Lit(pixel_min(p)))

\* A scan that keeps the first of several equal maxima.
RECURSIVE max_by_key_first(_, _, _)
max_by_key_first(data, i, best) ==
    IF i > 3 THEN best
    ELSE max_by_key_first(data, i + 1, IF data[i] > data[best] THEN i ELSE best)

\* data[..3].iter().enumerate().max_by_key(|&(_, e)| e): a left-to-right
\* scan from element i on, best being the maximum so far; an element that
\* compares equal to the maximum so far replaces it.
RECURSIVE max_by_key(_, _, _)
max_by_key(data, i, best) ==
    IF i > 3 THEN best
    ELSE max_by_key(data, i + 1, IF data[i] >= data[best] THEN i ELSE best)

\* One arm of pixel_hue's match: abs(data[a] - data[b]) as u8 / c * 43 + off
hue_arm(data, a, b, c, off) ==
    LET d == AsU8(AbsI16(SubI16(Lit(data[a]), Lit(data[b]))))
        q == Mul8(Div8(d, c), Lit(43))
    IN IF off = 0 THEN q ELSE Add8(q, Lit(off))

pixel_hue(p) ==
    LET c == pixel_chroma(p)
        k == max_by_key(p, 2, 1)
    IN IF c.v = 0 THEN [v |-> 0, ok |-> c.ok]
       ELSE IF k = 1 THEN hue_arm(p, 2, 3, c, 0)
       ELSE IF k = 2 THEN hue_arm(p, 3, 1, c, 85)
       ELSE hue_arm(p, 1, 2, c, 171)

saturation(p) ==
    IF pixel_max(p) = 0 THEN Lit(0)
    ELSE Div8(pixel_chroma(p), Lit(pixel_max(p)))

\* (R + G + B) / 3 computed in u8 without the split into thirds.
brightness_naive(p) ==
    Div8(Add8(Add8(Lit(p[1]), Lit(p[2])), Lit(p[3])), Lit(3))

brightness(p) ==
    LET three == Lit(3)
        r == Lit(p[1])
        g == Lit(p[2])
        b == Lit(p[3])
        rems == Add8(Add8(Rem8(r, three), Rem8(g, three)), Rem8(b, three))
    IN Add8(Add8(Add8(Div8(r, three), Div8(g, three)), Div8(b, three)),
            Div8(rems, three))

luma(p) ==
    AsU8(Shr16(Add16(Add16(Mul16(Lit(p[1]), Lit(2)), Lit(p[2])),
                     Mul16(Lit(p[3]), Lit(4))), 3))

\* SortHeuristic::func
func(f, p) ==
    CASE f = "Red" -> Lit(p[1])
      [] f = "Green" -> Lit(p[2])
      [] f = "Blue" -> Lit(p[3])
      [] f = "Max" -> Lit(pixel_max(p))
      [] f = "Min" -> Lit(pixel_min(p))
      [] f = "Chroma" -> pixel_chroma(p)
      [] f = "Hue" -> pixel_hue(p)
      [] f = "Saturation" -> saturation(p)
      [] f = "Value" -> Lit(pixel_max(p))
      [] f = "Brightness" -> brightness(p)
      [] f = "Luma" -> luma(p)

----------------------------------------------------------------------------
(* The row loop of main *)

sort_fn(p) == func(function, p).v

mask_fn(p) == ~(mask_alpha /\ p[4] = 0)

\* The first take_while closure without its mask test.
sortable_pred_nomask(p, inv) ==
    LET l == sort_fn(p)
    IN (l >= minimum /\ l <= maximum) # inv

\* The first take_while closure without cli.invert.
sortable_pred_noinvert(p, inv) ==
    LET l == sort_fn(p)
    IN (l >= minimum /\ l <= maximum) /\ mask_fn(p)

\* The first take_while closure with || for && in the range test.
sortable_pred_or(p, inv) ==
    LET l == sort_fn(p)
    IN ((l >= minimum \/ l <= maximum) # inv) /\ mask_fn(p)

\* The first take_while closure: the pixel belongs to the run to sort.
\* inv is cli.invert.
sortable_pred(p, inv) ==
    LET l == sort_fn(p)
    IN ((l >= minimum /\ l <= maximum) # inv) /\ mask_fn(p)

\* The second take_while closure without its mask test.
skip_pred_nomask(p, inv) ==
    LET l == sort_fn(p)
    IN (l < minimum \/ l > maximum) # inv

\* The second take_while closure: the pixel belongs to the run to skip.
skip_pred(p, inv) ==
    LET l == sort_fn(p)
    IN ((l < minimum \/ l > maximum) # inv) \/ ~mask_fn(p)

\* A count that also takes the element that ends the run.
RECURSIVE take_sortable_inclusive(_, _)
take_sortable_inclusive(r, from) ==
    IF from < Len(r)
    THEN IF sortable_pred(r[from + 1], invert)
         THEN 1 + take_sortable_inclusive(r, from + 1)
         ELSE 1
    ELSE 0

\* r[from..].iter().take_while(sortable_pred).count(); from is 0-based
RECURSIVE take_sortable(_, _)
take_sortable(r, from) ==
    IF from < Len(r) /\ sortable_pred(r[from + 1], invert)
    THEN 1 + take_sortable(r, from + 1)
    ELSE 0

\* r[from..].iter().take_while(skip_pred).count()
RECURSIVE take_skip(_, _)
take_skip(r, from) ==
    IF from < Len(r) /\ skip_pred(r[from + 1], invert)
    THEN 1 + take_skip(r, from + 1)
    ELSE 0

\* The comparator handed to sort_unstable_by, as "l is not after r".
in_order(l, r) ==
    IF reverse THEN sort_fn(r) <= sort_fn(l) ELSE sort_fn(l) <= sort_fn(r)

\* A sort that ignores cli.reverse.
sort_unstable_by_ascending(seg) ==
    { s \in { [i \in 1..Len(seg) |-> seg[f[i]]] : f \in Permutations(1..Len(seg)) } :
        \A i \in 1..(Len(s) - 1) : sort_fn(s[i]) <= sort_fn(s[i + 1]) }

\* slice.sort_unstable_by(cmp): the slice is permuted into comparator order;
\* which of several elements that compare equal comes first is unspecified,
\* so every ordered permutation is an outcome.
sort_unstable_by(seg) ==
    { s \in { [i \in 1..Len(seg) |-> seg[f[i]]] : f \in Permutations(1..Len(seg)) } :
        \A i \in 1..(Len(s) - 1) : in_order(s[i], s[i + 1]) }

\* A rebuilt row that forgets the pixels after the sorted slice.
splice_drop_tail(r, from, n, sorted) ==
    SubSeq(r, 1, from) \o sorted

\* row[ctr..ctr + numel] sorted in place: the row with the n elements
\* after the first `from` replaced by sorted
splice(r, from, n, sorted) ==
    SubSeq(r, 1, from) \o sorted \o SubSeq(r, from + n + 1, Len(r))

\* Rows of 1..MaxWidth pixels (chunks_mut needs a width of at least 1).
Rows == UNION { [1..n -> Palette] : n \in 1..MaxWidth }

Init ==
    /\ function \in Heuristics
    /\ minimum \in MinVals
    /\ maximum \in MaxVals
    /\ reverse \in BOOLEAN
    /\ invert \in BOOLEAN
    /\ mask_alpha \in BOOLEAN
    /\ rgba \in Rows
    /\ row = rgba
    /\ ctr = 0
    /\ pc = "loop"
    /\ pass = 1
    /\ classified = {}
    /\ pixel = <<0, 0, 0, 0>>
    /\ hval = Lit(0)

\* One iteration of `while ctr < w` (lines 159-188).
Iterate ==
    /\ pc = "loop"
    /\ ctr < Len(row)
    /\ LET numel == take_sortable(row, ctr)
       IN \E sorted \in sort_unstable_by(SubSeq(row, ctr + 1, ctr + numel)) :
            LET row2 == splice(row, ctr, numel, sorted)
            IN /\ row' = row2
               /\ ctr' = ctr + numel + take_skip(row2, ctr + numel)
               /\ classified' = classified \cup ((ctr + 1)..(ctr + numel))
    /\ UNCHANGED <<function, minimum, maximum, reverse, invert, mask_alpha,
                   rgba, pc, pass, pixel, hval>>

\* The loop ends and the row is written back with put_pixel (lines 159, 190-192).
WriteBack ==
    /\ pc = "loop"
    /\ ~(ctr < Len(row))
    /\ rgba' = row
    /\ pc' = "done"
    /\ UNCHANGED <<function, minimum, maximum, reverse, invert, mask_alpha,
                   row, ctr, pass, classified, pixel, hval>>

\* main run once more, with the same options, on the image it has saved
\* (a lossless format: the pixels opened are the pixels written).
Rerun ==
    /\ pc = "done"
    /\ pass = 1
    /\ row' = rgba
    /\ ctr' = 0
    /\ classified' = {}
    /\ pc' = "loop"
    /\ pass' = 2
    /\ UNCHANGED <<function, minimum, maximum, reverse, invert, mask_alpha,
                   rgba, pixel, hval>>

Next == Iterate \/ WriteBack \/ Rerun

Spec == Init /\ [][Next]_vars

----------------------------------------------------------------------------
(* A single heuristic call *)

HeurInit ==
    /\ function \in Heuristics
    /\ pixel \in ChanVals \X ChanVals \X ChanVals \X {0, 255}
    /\ hval = Lit(0)
    /\ pc = "heur"
    /\ minimum = 0
    /\ maximum = 255
    /\ reverse = FALSE
    /\ invert = FALSE
    /\ mask_alpha = FALSE
    /\ rgba = <<pixel>>
    /\ row = <<pixel>>
    /\ ctr = 0
    /\ pass = 1
    /\ classified = {}

\* sort_fn(p) for the selected heuristic
Evaluate ==
    /\ pc = "heur"
    /\ hval' = func(function, pixel)
    /\ pc' = "evaluated"
    /\ UNCHANGED <<function, minimum, maximum, reverse, invert, mask_alpha,
                   rgba, row, ctr, pass, classified, pixel>>

HeurNext == Evaluate

HeurSpec == HeurInit /\ [][HeurNext]_vars

----------------------------------------------------------------------------
(* Properties *)

\* The loop has left `while ctr < w`; row is its result, rgba still its input.
LoopFinished == pc = "loop" /\ ~(ctr < Len(row))

Positions == 1..Len(rgba)

\* The multiset of a sequence's elements.
BagOf(s) ==
    [x \in {s[i] : i \in DOMAIN s} |-> Cardinality({i \in DOMAIN s : s[i] = x})]

InRange(p) == minimum <= sort_fn(p) /\ sort_fn(p) <= maximum

MaskedOut(p) == mask_alpha /\ p[4] = 0

\* The sortable predicate, as the claims state it.
Sortable(p) == (InRange(p) # invert) /\ ~MaskedOut(p)

\* The maximal contiguous runs <<a, b>> of sortable positions of r.
MaximalRuns(r) ==
    { ab \in (1..Len(r)) \X (1..Len(r)) :
        /\ ab[1] <= ab[2]
        /\ \A i \in ab[1]..ab[2] : Sortable(r[i])
        /\ (ab[1] = 1 \/ ~Sortable(r[ab[1] - 1]))
        /\ (ab[2] = Len(r) \/ ~Sortable(r[ab[2] + 1])) }

Ordered(r, a, b) ==
    \A i \in a..(b - 1) :
        IF reverse THEN sort_fn(r[i]) >= sort_fn(r[i + 1])
        ELSE sort_fn(r[i]) <= sort_fn(r[i + 1])

\* C1: at every point of the loop (before the first iteration, after each
\* iteration, at its end) the row holds the same multiset of pixels as the
\* row it started from.
C1_MultisetPreserved == pc = "loop" => BagOf(row) = BagOf(rgba)

\* The loop has finished and has moved pixels.
C1_Witness == LoopFinished /\ row # rgba /\ Len(row) = MaxWidth

\* C2: in the row the loop produces, every maximal run of sortable
\* positions is non-decreasing in the heuristic, or non-increasing when
\* reverse is set.
C2_RunsOrdered ==
    LoopFinished => \A ab \in MaximalRuns(row) : Ordered(row, ab[1], ab[2])

\* A finished descending sort of a run of two or more pixels that were not
\* in order, next to a skip run.
C2_Witness ==
    /\ LoopFinished
    /\ reverse
    /\ \E ab \in MaximalRuns(row) :
         /\ ab[2] > ab[1]
         /\ ab[2] < Len(row)
         /\ ~Ordered(rgba, ab[1], ab[2])
         /\ sort_fn(row[ab[1]]) > sort_fn(row[ab[2]])

\* C3: a position whose pixel fails the sortable predicate holds the same
\* pixel throughout the loop and at its end.
C3_SkipRunsFixed ==
    pc = "loop" =>
        \A i \in Positions : ~Sortable(rgba[i]) => row[i] = rgba[i]

\* The loop has finished, has moved pixels, and the row has a skip
\* position between sortable ones.
C3_Witness ==
    /\ LoopFinished
    /\ row # rgba
    /\ \E i \in Positions :
         /\ ~Sortable(rgba[i])
         /\ \E j \in 1..(i - 1) : Sortable(rgba[j])

\* C4: with mask_alpha set, a pixel with alpha 0 stays at its index.
C4_MaskedNeverMoved ==
    (pc = "loop" /\ mask_alpha) =>
        \A i \in Positions : rgba[i][4] = 0 => row[i] = rgba[i]

\* mask_alpha is set, a transparent pixel whose heuristic value is in the
\* sorted range sits among pixels that the finished loop has moved.
C4_Witness ==
    /\ LoopFinished
    /\ mask_alpha
    /\ row # rgba
    /\ \E i \in Positions : rgba[i][4] = 0 /\ (InRange(rgba[i]) # invert)

SortablePositions(inv) == {i \in Positions : sortable_pred(rgba[i], inv)}

\* C6 as stated: the positions the loop sorts are the complement, within
\* the row, of the positions sortable under the other value of invert.
C6_InvertComplement ==
    LoopFinished => classified = Positions \ SortablePositions(~invert)

\* C6 amended: they are the complement within the positions that pass the
\* alpha mask; a masked-out position is sortable under neither value.
C6_InvertComplementUnmasked ==
    LoopFinished =>
        /\ classified = {i \in Positions : ~MaskedOut(rgba[i])}
                            \ SortablePositions(~invert)
        /\ \A i \in Positions :
             MaskedOut(rgba[i]) =>
                 i \notin SortablePositions(TRUE) \cup SortablePositions(FALSE)

\* The loop has finished on a row with a masked-out pixel, a sorted
\* position and a skipped unmasked position.
C6_Witness ==
    /\ LoopFinished
    /\ \E i \in Positions : MaskedOut(rgba[i])
    /\ classified # {}
    /\ \E i \in Positions : ~MaskedOut(rgba[i]) /\ i \notin classified

\* C7: while the cursor is below the row length the sortable run and the
\* skip run after it together hold at least one pixel and the sort of the
\* run has an outcome; the cursor never passes the row length; every iteration
\* advances it; the loop is left only with the cursor at the row length.
\* The cursor is then a strictly increasing integer bounded by the row
\* length, so the loop ends after at most Len(row) iterations.
C7_Terminates ==
    /\ [](pc = "loop" =>
            /\ ctr <= Len(row)
            /\ ctr < Len(row) =>
                 /\ take_sortable(row, ctr)
                      + take_skip(row, ctr + take_sortable(row, ctr)) >= 1
                 /\ sort_unstable_by(SubSeq(row, ctr + 1,
                        ctr + take_sortable(row, ctr))) # {})
    /\ [][Iterate => (ctr' > ctr /\ ctr' <= Len(row'))]_vars
    /\ [][WriteBack => ctr = Len(row)]_vars

\* The loop has ended after an iteration that scanned an empty sortable
\* run (the cursor was on a skip pixel) on a full-width row.
C7_Witness ==
    /\ pc = "done"
    /\ ctr = Len(row)
    /\ Len(row) = MaxWidth
    /\ ~Sortable(row[1])
    /\ classified # {}

WholeRowOrdered == Ordered(row, 1, Len(row))

\* C8 as stated: with minimum > maximum the row is unchanged when invert is
\* off; when invert is on every pixel is sortable and the whole row is
\* sorted as one run.
C8_MinAboveMax ==
    (LoopFinished /\ minimum > maximum) =>
        IF ~invert THEN row = rgba /\ classified = {}
        ELSE classified = Positions /\ WholeRowOrdered

\* C8 amended: when invert is on, every pixel that is not masked out is
\* sortable, and a row without masked-out pixels is sorted as one run.
C8_MinAboveMaxUnmasked ==
    (LoopFinished /\ minimum > maximum) =>
        IF ~invert THEN row = rgba /\ classified = {}
        ELSE /\ classified = {i \in Positions : ~MaskedOut(rgba[i])}
             /\ (\A i \in Positions : ~MaskedOut(rgba[i])) =>
                    (classified = Positions /\ WholeRowOrdered)

\* minimum > maximum, invert on: the finished loop has sorted a whole row
\* that was out of order.
C8_Witness ==
    /\ LoopFinished
    /\ minimum > maximum
    /\ invert
    /\ Len(row) = MaxWidth
    /\ classified = Positions
    /\ ~Ordered(rgba, 1, Len(rgba))

\* The channels (1 = R, 2 = G, 3 = B) that hold the maximum of p.
TiedChannels(p) == {k \in 1..3 : \A j \in 1..3 : p[k] >= p[j]}

Abs(n) == IF n < 0 THEN 0 - n ELSE n

\* The value of the Hue formula of channel k, in unbounded integers.
HueFormula(p, k) ==
    LET c == pixel_max(p) - pixel_min(p)
    IN CASE k = 1 -> (Abs(p[2] - p[3]) \div c) * 43
         [] k = 2 -> (Abs(p[3] - p[1]) \div c) * 43 + 85
         [] k = 3 -> (Abs(p[1] - p[2]) \div c) * 43 + 171

HueTie ==
    /\ pc = "evaluated"
    /\ function = "Hue"
    /\ pixel_max(pixel) # pixel_min(pixel)
    /\ Cardinality(TiedChannels(pixel)) >= 2

\* C9 as stated: on a tie for the maximum, Hue takes the formula of the
\* first tied channel in the order R, G, B.
C9_FirstTiedChannel ==
    HueTie =>
        hval.v = HueFormula(pixel,
                     CHOOSE k \in TiedChannels(pixel) :
                         \A j \in TiedChannels(pixel) : k <= j)

\* C9 amended: Hue takes the formula of the last tied channel in the order
\* R, G, B.
C9_LastTiedChannel ==
    HueTie =>
        hval.v = HueFormula(pixel,
                     CHOOSE k \in TiedChannels(pixel) :
                         \A j \in TiedChannels(pixel) : k >= j)

\* Hue evaluated on R = G > B: the G formula's 128, not the R formula's 43.
C9_Witness ==
    /\ HueTie
    /\ pixel[1] = pixel[2]
    /\ pixel[1] > pixel[3]
    /\ hval.v = 128

\* C10: a heuristic call ends without overflow, underflow, division by
\* zero or a lossy narrowing, with a value in 0..255.
C10_HeuristicsTotal ==
    pc = "evaluated" => (hval.ok /\ hval.v \in 0..255)

\* Brightness evaluated where the sum of the channels is largest.
C10_Witness ==
    /\ pc = "evaluated"
    /\ function = "Brightness"
    /\ pixel[1] = 255 /\ pixel[2] = 255 /\ pixel[3] = 255
    /\ hval.v = 255

====
